---- MODULE Spec2Model ----
(***************************************************************************)
(* A model of src/lib/engine.ts (IvyEngine): the constructor's bootstrap   *)
(* sequence, the permission check `has`, and the version-control           *)
(* subsystem (execGit, getCurrentVersion, getUpstreamVersion,              *)
(* getReleaseChannel, update).                                             *)
(*                                                                         *)
(* JavaScript strings are sequences of one-character strings, so that the  *)
(* regular expressions, trim, substring and toLowerCase are computed       *)
(* character by character.                                                 *)
(***************************************************************************)
EXTENDS Integers, Sequences, FiniteSets, TLC

\* ------------------------------------------------------------------ text

\* JavaScript null / undefined (an absent option, a caught rejection).
NULL == "<null>"

Digits == {"0", "1", "2", "3", "4", "5", "6", "7", "8", "9"}
LowerLetters == {"a", "b", "c", "d", "e", "f", "g", "h", "i", "j", "k", "l", "m",
                 "n", "o", "p", "q", "r", "s", "t", "u", "v", "w", "x", "y", "z"}
UpperLetters == {"A", "B", "C", "D", "E", "F", "G", "H", "I", "J", "K", "L", "M",
                 "N", "O", "P", "Q", "R", "S", "T", "U", "V", "W", "X", "Y", "Z"}

\* [0-9a-f], the character class of HASH_PATTERN.
HexChars == Digits \cup {"a", "b", "c", "d", "e", "f"}

\* \w of a JavaScript regular expression: [A-Za-z0-9_].
WordChars == Digits \cup LowerLetters \cup UpperLetters \cup {"_"}

\* The white space String.prototype.trim removes (the ASCII part of it).
WhiteSpace == {" ", "\n", "\t", "\r"}

\* String(x) as RegExp.prototype.test applies it to its argument: null
\* becomes the four characters "null".
ToStr(x) == IF x = NULL THEN <<"n", "u", "l", "l">> ELSE x

\* !x for a string or null: the empty string and null are falsy.
Falsy(x) == x = NULL \/ x = <<>>

\* The lengths {5,40} of HASH_PATTERN and the 7 of substring(0, 7).
HashMin == 5
HashMax == 40
VersionLen == 7

\* HASH_PATTERN.test(x), /\b[0-9a-f]{5,40}\b/ : some run of HashMin..HashMax
\* hex characters has a word boundary on both sides. The run's characters
\* are word characters, so a boundary is the string's end or a non-word
\* neighbour. The pattern is not anchored.
HASH_PATTERN(x) ==
    LET s == ToStr(x) IN
    \E i \in 1..Len(s) : \E n \in HashMin..HashMax :
        /\ i + n - 1 <= Len(s)
        /\ \A k \in i..(i + n - 1) : s[k] \in HexChars
        /\ (i = 1 \/ s[i - 1] \notin WordChars)
        /\ (i + n - 1 = Len(s) \/ s[i + n] \notin WordChars)

\* GIT_REPO_PATTERN.test(s), /\w+\/\w+/ : somewhere in s a word character,
\* a slash, a word character. The pattern is not anchored.
GIT_REPO_PATTERN(s) ==
    \E i \in 1..Len(s) :
        /\ i + 2 <= Len(s)
        /\ s[i] \in WordChars
        /\ s[i + 1] = "/"
        /\ s[i + 2] \in WordChars

\* s.substring(0, n) and s.substr(0, n).
Substring(s, n) == SubSeq(s, 1, IF Len(s) < n THEN Len(s) ELSE n)

\* s.trim().
RECURSIVE TrimLeft(_)
TrimLeft(s) ==
    IF s # <<>> /\ Head(s) \in WhiteSpace THEN TrimLeft(Tail(s)) ELSE s

RECURSIVE TrimRight(_)
TrimRight(s) ==
    IF s # <<>> /\ s[Len(s)] \in WhiteSpace
    THEN TrimRight(SubSeq(s, 1, Len(s) - 1))
    ELSE s

Trim(s) == TrimRight(TrimLeft(s))

\* chunks.join('').
RECURSIVE Join(_)
Join(chunks) ==
    IF chunks = <<>> THEN <<>> ELSE Head(chunks) \o Join(Tail(chunks))

\* s.toLowerCase().
LowerOf(c) ==
    CASE c = "A" -> "a" [] c = "B" -> "b" [] c = "C" -> "c" [] c = "D" -> "d"
      [] c = "E" -> "e" [] c = "F" -> "f" [] c = "G" -> "g" [] c = "H" -> "h"
      [] c = "I" -> "i" [] c = "J" -> "j" [] c = "K" -> "k" [] c = "L" -> "l"
      [] c = "M" -> "m" [] c = "N" -> "n" [] c = "O" -> "o" [] c = "P" -> "p"
      [] c = "Q" -> "q" [] c = "R" -> "r" [] c = "S" -> "s" [] c = "T" -> "t"
      [] c = "U" -> "u" [] c = "V" -> "v" [] c = "W" -> "w" [] c = "X" -> "x"
      [] c = "Y" -> "y" [] c = "Z" -> "z" [] OTHER -> c

ToLowerCase(s) == [k \in 1..Len(s) |-> LowerOf(s[k])]

\* s.startsWith(p).
StartsWith(s, p) == Len(s) >= Len(p) /\ SubSeq(s, 1, Len(p)) = p

\* The sentinels of the version-control operations.
Unknown == <<"u", "n", "k", "n", "o", "w", "n">>
Failure == <<"F", "a", "i", "l", "u", "r", "e">>
Fatal == <<"f", "a", "t", "a", "l">>

\* ------------------------------------------------- state of the program

VARIABLES
    gitRepo,      \* opts.gitRepo: NULL (not supplied) or a string
    vcsEnabled,   \* this.vcsEnabled
    head,         \* the repository: what `git rev-parse HEAD` does in it now
    tasks,        \* the calls of the public version-control operations
    uncaught,     \* an 'error' event nobody listens for was emitted
    at,           \* the constructor's position: the step of CtorOrder it is in
    startupHook,  \* whether opts.startup was supplied
    log,          \* the steps the constructor took, in order
    registry,     \* the module registry of moduleManager
    inited,       \* the modules whose initialization hook ran, in order
    regs,         \* the calls of registerModule made by the bot's own code
    superPerms,   \* opts.superPerms
    members,      \* the guild passed to `has`: each user's permissions in it
    hasCall,      \* the last call of `has` and what came of it
    commands,     \* the command registry of commandManager
    cmdRegs       \* the calls of registerCommand made by the bot's code

vcsVars == <<gitRepo, vcsEnabled, head, tasks, uncaught>>
bootVars == <<at, startupHook, log, registry, inited, regs>>
permVars == <<superPerms, members, hasCall>>
cmdVars == <<commands, cmdRegs>>
vars == <<vcsVars, bootVars, permVars, cmdVars>>

\* ----------------------------------------------------------- constructor

\* Lines 93-96: VCS is enabled when a repository identifier was supplied
\* (a truthy string) and GIT_REPO_PATTERN finds a match in it.
VcsEligible(repo) ==
    LET supplied == ~Falsy(repo) IN
    IF supplied /\ ~GIT_REPO_PATTERN(repo) THEN FALSE ELSE supplied

\* ------------------------------------------------------- the subprocess

\* What a git subprocess does: its exit code and the chunks it writes to
\* stdout and to stderr, each chunk arriving in one 'data' event.
Outcome(code, out, err) == [code |-> code, out |-> out, err |-> err]

NotARepo == <<"f", "a", "t", "a", "l", ":", " ", "n", "o", " ", "g", "i", "t">>

\* `git rev-parse HEAD` in the states the repository can be in: a commit
\* identifier (arriving in two chunks), another commit identifier, a
\* five-character hex string, diagnostic text holding a hex run, and a
\* failure.
HeadA == Outcome(0, << <<"a", "b", "c", "d", "e", "f">>, <<"1", "2", "3", "4", "\n">> >>, <<>>)
HeadB == Outcome(0, << <<"1", "2", "3", "4", "5", "6", "7", "8", "9", "0", "\n">> >>, <<>>)
HeadShort == Outcome(0, << <<"a", "b", "c", "d", "e", "\n">> >>, <<>>)
HeadDiag == Outcome(0, << <<"H", "E", "A", "D", " ", "a", "b", "c", "d", "e", "f", "\n">> >>, <<>>)
HeadFails == Outcome(128, <<>>, <<NotARepo>>)

HeadStates == {HeadA, HeadB, HeadShort, HeadDiag, HeadFails}

\* `git rev-parse --abbrev-ref HEAD`: a branch name, nothing, text that
\* begins with "fatal", or a failure.
BranchOutcomes ==
    { Outcome(0, << <<"m", "a", "i", "n", "\n">> >>, <<>>),
      Outcome(0, <<>>, <<>>),
      Outcome(0, << Fatal \o <<":", " ", "x", "\n">> >>, <<>>),
      Outcome(128, <<>>, <<NotARepo>>) }

\* `git ls-remote ...`: the remote's commit identifier, the same in upper
\* case, nothing (no such ref), or a failure.
RemoteOutcomes ==
    { Outcome(0, << <<"a", "b", "c", "d", "e", "f", "1", "2", "3", "4", "\n">> >>, <<>>),
      Outcome(0, << <<"A", "B", "C", "D", "E", "F", "1", "2", "3", "4", "\n">> >>, <<>>),
      Outcome(0, <<>>, <<>>),
      Outcome(128, <<>>, <<NotARepo>>) }

\* `git git pull`: success with a message, success with nothing written,
\* or a failure whose message arrives in two chunks.
PullOutcomes ==
    { Outcome(0, << <<"o", "k", "\n">> >>, <<>>),
      Outcome(0, <<>>, <<>>),
      Outcome(1, <<>>, << Fatal, <<":", " ", "x", "\n">> >>) }

CmdHead == "rev-parse HEAD"
CmdBranch == "rev-parse --abbrev-ref HEAD"
CmdRemote == "ls-remote"
CmdPull == "git pull"

NoProc == [phase |-> "none"]

\* Line 194-198: spawn('git', args.split(' ')) and the two empty buffers.
\* ref is the release channel substituted into the ls-remote arguments.
SpawnedProc(cmd, ref) ==
    [phase |-> "spawned", cmd |-> cmd, ref |-> ref,
     code |-> 0, pendOut |-> <<>>, pendErr |-> <<>>,
     stdout |-> <<>>, stderr |-> <<>>]

\* --------------------------------------------------------------- tasks

\* The number of calls of the public operations that are made.
MaxTasks == 2

Tasks == 1..MaxTasks

\* The ready handler of the constructor is a task of its own.
ReadyTask == 0
TaskIds == Tasks \cup {ReadyTask}

Ops == {"getCurrentVersion", "getUpstreamVersion", "getReleaseChannel", "update"}

\* execGit('git pull') has not settled.
NoPull == [settled |-> FALSE, ok |-> FALSE]

\* A call that was not made yet. stack holds the async functions that are
\* suspended at an await, the innermost last; local and remote are update's
\* variables; called lists what the callback `then` received; spawns and
\* pulls count the subprocesses and the pull subprocesses spawned; failed
\* holds the functions whose execGit was rejected; pull is how
\* execGit('git pull') settled; did lists what the ready handler did.
IdleTask ==
    [op |-> "none", cb |-> FALSE, status |-> "idle", result |-> NULL,
     stack |-> <<>>, proc |-> NoProc, local |-> NULL, remote |-> NULL,
     called |-> <<>>, spawns |-> 0, pulls |-> 0, failed |-> {},
     pull |-> NoPull, did |-> <<>>]

Push(task, frame) == [task EXCEPT !.stack = Append(@, frame)]
Pop(task) == [task EXCEPT !.stack = SubSeq(@, 1, Len(@) - 1)]
Top(task) == task.stack[Len(task.stack)]

\* Lines 193-198: execGit spawns the subprocess; frame awaits its promise.
execGit(task, frame, cmd, ref) ==
    [Push(task, frame) EXCEPT
        !.proc = SpawnedProc(cmd, ref),
        !.spawns = @ + 1,
        !.pulls = IF cmd = CmdPull THEN @ + 1 ELSE @]

\* update invoking its callback twice.
ThenTwice(task, v) ==
    IF task.cb
    THEN [task EXCEPT !.called = @ \o <<v, v>>, !.status = "resolved", !.result = NULL]
    ELSE [task EXCEPT !.status = "rejected", !.result = "TypeError"]

\* `return then(v)`: the callback receives v and the async function
\* resolves; without a callback the call of undefined throws a TypeError,
\* which rejects the async function's promise.
Then(task, v) ==
    IF task.cb
    THEN [task EXCEPT !.called = Append(@, v), !.status = "resolved", !.result = NULL]
    ELSE [task EXCEPT !.status = "rejected", !.result = "TypeError"]

\* An execGit promise as the awaiting code sees it: line 222, 238 and 254
\* turn a rejection into null with .catch(err => null).
Caught(r) == IF r.ok THEN r.v ELSE NULL

\* Lines 223-227: the value of getCurrentVersion from execGit's result.
getCurrentVersionValue(res) ==
    IF ~HASH_PATTERN(res) THEN Unknown ELSE Substring(res, VersionLen)

\* Lines 239-243: the value of getUpstreamVersion from execGit's result.
getUpstreamVersionValue(res) ==
    IF Falsy(res) THEN Unknown ELSE Substring(res, VersionLen)

\* getReleaseChannel taking only a rejection for a failure: an empty result
\* is returned as it is.
getReleaseChannelValueKeepsEmpty(res) ==
    IF res = NULL THEN Unknown
    ELSE IF StartsWith(res, Fatal) THEN Unknown ELSE res

\* Lines 255-259: the value of getReleaseChannel from execGit's result.
getReleaseChannelValue(res) ==
    IF Falsy(res) \/ StartsWith(res, Fatal) THEN Unknown ELSE res

\* update comparing the versions as they are, without toLowerCase.
UpToDateCaseSensitive(local, remote) == local = remote

\* Line 273: whether update takes local and remote for the same version.
UpToDate(local, remote) == ToLowerCase(local) = ToLowerCase(remote)

\* The ready handler calling onReady before it sets the presence.
readyConnectedOnReadyFirst(task) ==
    [task EXCEPT !.did = @ \o <<"info:connected", "onReady", "setPresence">>,
                 !.status = "resolved"]

\* Lines 121-130: the ready handler from the connected message on.
readyConnected(task) ==
    [task EXCEPT !.did = @ \o <<"info:connected", "setPresence", "onReady">>,
                 !.status = "resolved"]

RECURSIVE Return(_, _)

\* getCurrentVersion without its test of vcsEnabled.
getCurrentVersionUnguarded(task) ==
    execGit(task, "getCurrentVersion", CmdHead, NULL)

\* Lines 217-222: getCurrentVersion up to its await.
getCurrentVersion(task) ==
    IF ~vcsEnabled THEN Return(task, Unknown)
    ELSE execGit(task, "getCurrentVersion", CmdHead, NULL)

\* Lines 249-254: getReleaseChannel up to its await.
getReleaseChannel(task) ==
    IF ~vcsEnabled THEN Return(task, Unknown)
    ELSE execGit(task, "getReleaseChannel", CmdBranch, NULL)

\* Lines 233-238: getUpstreamVersion up to its first await, that of
\* getReleaseChannel() inside the argument string.
getUpstreamVersion(task) ==
    IF ~vcsEnabled THEN Return(task, Unknown)
    ELSE getReleaseChannel(Push(task, "getUpstreamVersion:channel"))

\* Lines 266-271: update up to its first await.
update(task) ==
    IF ~vcsEnabled THEN Then(task, Failure)
    ELSE getCurrentVersion(Push(task, "update:local"))

\* Lines 272-277: update from the upstream version to the pull.
updateCompare(task, remote) ==
    LET t == [task EXCEPT !.remote = remote] IN
    IF UpToDate(t.local, remote) THEN Then(t, t.local)
    ELSE execGit(t, "update:pull", CmdPull, NULL)

\* Lines 277-282: update after execGit('git pull') settled with r. The await
\* has no catch: a rejection rejects update itself.
updatePulled(task, r) ==
    LET t == [task EXCEPT !.pull = [settled |-> TRUE, ok |-> r.ok]] IN
    IF ~r.ok THEN [t EXCEPT !.status = "rejected", !.result = r.v]
    ELSE IF Falsy(r.v) THEN Then(t, Failure)
    ELSE getCurrentVersion(Push(t, "update:final"))

\* An async function returns v: the function awaiting it goes on, to its
\* next await or to its end; with nobody awaiting, the call has resolved.
Return(task, v) ==
    IF task.stack = <<>>
    THEN [task EXCEPT !.status = "resolved", !.result = v]
    ELSE LET f == Top(task)
             t == Pop(task)
         IN CASE f = "update:local" ->
                     getUpstreamVersion(Push([t EXCEPT !.local = v], "update:remote"))
              [] f = "update:remote" -> updateCompare(t, v)
              [] f = "update:final" -> Then(t, v)
              [] f = "getUpstreamVersion:channel" ->
                     execGit(t, "getUpstreamVersion", CmdRemote, v)
              [] f = "ready:channel" -> getCurrentVersion(Push(t, "ready:version"))
              [] f = "ready:version" ->
                     readyConnected([t EXCEPT !.did = Append(@, "info:version")])

\* Lines 116-118: the ready handler up to its first await.
readyHandler(task) ==
    IF vcsEnabled THEN getReleaseChannel(Push(task, "ready:channel"))
    ELSE readyConnected(task)

\* The promise of execGit settles with r (resolved, or rejected): the
\* function awaiting it goes on.
Settled(task, r) ==
    LET f == Top(task)
        t == [Pop(task) EXCEPT !.proc = NoProc,
                               !.failed = IF r.ok THEN @ ELSE @ \cup {f}]
    IN CASE f = "getCurrentVersion" -> Return(t, getCurrentVersionValue(Caught(r)))
         [] f = "getReleaseChannel" -> Return(t, getReleaseChannelValue(Caught(r)))
         [] f = "getUpstreamVersion" -> Return(t, getUpstreamVersionValue(Caught(r)))
         [] f = "update:pull" -> updatePulled(t, r)

\* Lines 202-211: the 'exit' handler's settlement of the promise.
ExitResult(proc, code) ==
    IF code # 0 THEN [ok |-> FALSE, v |-> Trim(Join(proc.stderr))]
    ELSE [ok |-> TRUE, v |-> Trim(Join(proc.stdout))]

\* ------------------------------------------------------ the constructor

\* The constructor running the startup hook after moduleManager.init().
CtorOrderHookLate ==
    << "eventHandler", "registerCommands", "registerFlows", "registerModules",
       "init", "startup", "login", "listen" >>

\* The constructor calling moduleManager.init() before registerModules().
CtorOrderInitEarly ==
    << "eventHandler", "registerCommands", "registerFlows", "init",
       "registerModules", "startup", "login", "listen" >>

\* Lines 106-116: the constructor's calls, in the order it makes them.
CtorOrder ==
    << "eventHandler", "registerCommands", "registerFlows", "registerModules",
       "startup", "init", "login", "listen" >>

\* The steps that run code of the concrete bot or of the startup hook.
ExtensionPoints == {"registerCommands", "registerFlows", "registerModules", "startup"}

\* The constructor threw: no engine was constructed.
Aborted == Len(CtorOrder) + 1

\* The module of opts.eventHandler || new DefaultEventManager(this), and the
\* modules of the concrete bot: a1 and a2 go by the same name.
EventModule == "events"
BotModules == {"a1", "a2", "b1"}

ModuleName(m) ==
    CASE m = "a1" -> "a" [] m = "a2" -> "a" [] m = "b1" -> "b" [] OTHER -> m

\* ModuleManager.registerModule: the registry maps a name to a module; a
\* module registered under a name that is taken replaces the one there.
ModuleManagerRegister(reg, m) ==
    LET entry == [name |-> ModuleName(m), module |-> m]
        taken == {i \in 1..Len(reg) : reg[i].name = entry.name}
    IN IF taken = {} THEN Append(reg, entry)
       ELSE [i \in 1..Len(reg) |-> IF i \in taken THEN entry ELSE reg[i]]

\* ModuleManager.init: the initialization hook of every registered module
\* runs, in registration order.
ModuleManagerInit(reg, done) == done \o [i \in 1..Len(reg) |-> reg[i].module]

\* The state of an engine whose bot registers nothing and has no startup
\* hook, once its constructor has returned.
Constructed ==
    /\ at = Len(CtorOrder)
    /\ startupHook = FALSE
    /\ log = SelectSeq(CtorOrder, LAMBDA x : x # "startup")
    /\ registry = << [name |-> ModuleName(EventModule), module |-> EventModule] >>
    /\ inited = << EventModule >>
    /\ regs = <<>>

\* The constructor is inside code of the bot or of the startup hook.
InExtensionPoint ==
    /\ at \in 1..Len(CtorOrder)
    /\ CtorOrder[at] \in ExtensionPoints
    /\ CtorOrder[at] = "startup" => startupHook

\* Lines 89-116: the constructor goes on to its next call. Before the
\* first one it stores the options and settles vcsEnabled (lines 90-104);
\* the startup hook is called only if one was supplied (line 112).
CtorStep ==
    /\ at < Len(CtorOrder)
    /\ LET step == CtorOrder[at + 1] IN
       /\ at' = at + 1
       /\ vcsEnabled' = IF at = 0 THEN VcsEligible(gitRepo) ELSE vcsEnabled
       /\ log' = IF step = "startup" /\ ~startupHook THEN log ELSE Append(log, step)
       /\ registry' = IF step = "eventHandler"
                      THEN ModuleManagerRegister(registry, EventModule)
                      ELSE registry
       /\ inited' = IF step = "init" THEN ModuleManagerInit(registry, inited) ELSE inited
    /\ UNCHANGED <<cmdVars, permVars, gitRepo, head, tasks, uncaught, startupHook, regs>>

\* Code of the bot or the startup hook throws: construction is abandoned.
CtorThrows ==
    /\ InExtensionPoint
    /\ at' = Aborted
    /\ UNCHANGED <<cmdVars, permVars, vcsVars, startupHook, log, registry, inited, regs>>

\* The ready handler has called onReady.
OnReadyCalled ==
    \E i \in 1..Len(tasks[ReadyTask].did) : tasks[ReadyTask].did[i] = "onReady"

\* The number of registerModule calls the bot's code makes.
MaxRegs == 2

\* Line 151: registerModule, called by the bot's code: from an extension
\* point or the startup hook, or once the engine is constructed (from
\* onReady, if it has run). regs notes the call and when it was made.
RegisterModule(m) ==
    /\ InExtensionPoint \/ at = Len(CtorOrder)
    /\ Len(regs) < MaxRegs
    /\ registry' = ModuleManagerRegister(registry, m)
    /\ regs' = Append(regs,
           [module |-> m,
            during |-> IF at < Len(CtorOrder) THEN CtorOrder[at]
                       ELSE IF OnReadyCalled THEN "onReady" ELSE "constructed"])
    /\ UNCHANGED <<cmdVars, permVars, vcsVars, at, startupHook, log, inited>>

\* Lines 115-116: the client, logged in, emits 'ready' and the handler
\* registered by the constructor starts; it runs to its first await.
Ready ==
    /\ at = Len(CtorOrder)
    /\ tasks[ReadyTask].status = "idle"
    /\ tasks' = [tasks EXCEPT ![ReadyTask] =
           readyHandler([IdleTask EXCEPT !.op = "ready", !.status = "pending"])]
    /\ UNCHANGED <<cmdVars, permVars, bootVars, gitRepo, vcsEnabled, head, uncaught>>

\* ---------------------------------------------------------- permissions

Users == {"u1", "u2"}
Permissions == {"KICK", "BAN"}

\* What guild.member(user) finds: no member (the user is not in the guild,
\* or the guild is not a valid one), or a member with its permissions.
NoMember == [found |-> FALSE, permissions |-> {}]
Members == {NoMember} \cup {[found |-> TRUE, permissions |-> P] : P \in SUBSET Permissions}

\* Lines 179-187: guild.member(user).hasPermission(permission) || the
\* user's id is one of opts.superPerms. When guild.member(user) finds no
\* member, the call of hasPermission on null throws a TypeError, before the
\* superuser list is looked at.
has(user, permission) ==
    IF ~members[user].found THEN [threw |-> TRUE, value |-> FALSE]
    ELSE [threw |-> FALSE,
          value |-> (permission \in members[user].permissions)
                        \/ (user \in superPerms)]

NoPermissionCall ==
    /\ superPerms = {}
    /\ members = [u \in Users |-> NoMember]
    /\ hasCall = [user |-> NULL, permission |-> NULL,
                  result |-> [threw |-> FALSE, value |-> FALSE]]

\* A call of has(user, permission, guild).
Has(user, permission) ==
    /\ hasCall' = [user |-> user, permission |-> permission,
                   result |-> has(user, permission)]
    /\ UNCHANGED <<cmdVars, vcsVars, bootVars, superPerms, members>>

\* ------------------------------------------------------------- commands

CommandNames == {"n1", "n2"}
Commands == {"c1", "c2", "c3"}

\* CommandManager.registerCommand: the registry maps a name to a command; a
\* command registered under a name that is taken replaces the one there.
CommandManagerRegister(reg, name, command) ==
    LET entry == [name |-> name, command |-> command]
        taken == {i \in 1..Len(reg) : reg[i].name = name}
    IN IF taken = {} THEN Append(reg, entry)
       ELSE [i \in 1..Len(reg) |-> IF i \in taken THEN entry ELSE reg[i]]

\* The commands retrievable from the registry under a name.
CommandManagerLookup(reg, name) ==
    {i \in 1..Len(reg) : reg[i].name = name}

\* registerCommand leaving alone a name that is taken.
registerCommandKeepsFirst(reg, name, command) ==
    IF CommandManagerLookup(reg, name) # {} THEN reg
    ELSE CommandManagerRegister(reg, name, command)

\* Line 145: registerCommand hands name and command to the command manager.
registerCommand(reg, name, command) == CommandManagerRegister(reg, name, command)

\* The command manager as the constructor creates it (line 104).
NoCommands ==
    /\ commands = <<>>
    /\ cmdRegs = <<>>

\* The number of registerCommand calls the bot's code makes.
MaxCmdRegs == 3

\* Line 145: registerCommand, called by the bot's code: from an extension
\* point or the startup hook, or once the engine is constructed. cmdRegs
\* notes the call.
RegisterCommand(name, command) ==
    /\ InExtensionPoint \/ at = Len(CtorOrder)
    /\ Len(cmdRegs) < MaxCmdRegs
    /\ commands' = registerCommand(commands, name, command)
    /\ cmdRegs' = Append(cmdRegs, [name |-> name, command |-> command])
    /\ UNCHANGED <<vcsVars, bootVars, permVars>>

\* ------------------------------------------ version control: the actions

\* The repository identifiers the engine is constructed with: none, the
\* empty string, one without a slash, owner/name, and one with two slashes.
RepoIds ==
    { NULL, <<>>, <<"a", "b">>, <<"a", "/", "b">>, <<"a", "/", "b", "/", "c">> }

\* The state after construction, with no call made yet.
Init ==
    /\ gitRepo \in RepoIds
    /\ vcsEnabled = VcsEligible(gitRepo)
    /\ head \in HeadStates
    /\ tasks = [t \in TaskIds |-> IdleTask]
    /\ uncaught = FALSE
    /\ Constructed
    /\ NoPermissionCall
    /\ NoCommands

Settledness == {"resolved", "rejected"}

\* The number of calls of update among the calls that are made.
MaxUpdates == 1

\* A call that has returned: its outcome stays with the caller; the async
\* functions' variables and the notes about its subprocesses are gone.
Returned(task) ==
    [IdleTask EXCEPT !.op = task.op, !.cb = task.cb, !.status = task.status,
                     !.result = task.result, !.called = task.called]

\* A call made before the previous one: the caller remembers only that it
\* made it.
Forgotten(task) == [IdleTask EXCEPT !.op = task.op, !.status = "forgotten"]

\* The caller calls a public operation; the call runs to its first await
\* (or to its end). The caller awaits each call before it makes the next,
\* and keeps the outcome of the call before this one only. Only update
\* takes a callback, and it may be left out.
Call(t, op, cb) ==
    /\ tasks[t].status = "idle"
    /\ \A u \in Tasks : u < t => tasks[u].status \in Settledness \cup {"forgotten"}
    /\ op = "update" =>
           Cardinality({u \in Tasks : tasks[u].op = "update"}) < MaxUpdates
    /\ cb => op = "update"
    /\ LET t0 == [IdleTask EXCEPT !.op = op, !.cb = cb, !.status = "pending"] IN
       tasks' = [u \in TaskIds |->
           IF u \in Tasks /\ u < t - 1 THEN Forgotten(tasks[u])
           ELSE IF u \in Tasks /\ u < t THEN Returned(tasks[u])
           ELSE IF u # t THEN tasks[u]
           ELSE CASE op = "getCurrentVersion" -> getCurrentVersion(t0)
                  [] op = "getUpstreamVersion" -> getUpstreamVersion(t0)
                  [] op = "getReleaseChannel" -> getReleaseChannel(t0)
                  [] op = "update" -> update(t0)]
    /\ UNCHANGED <<cmdVars, bootVars, permVars, gitRepo, vcsEnabled, head, uncaught>>

\* What the subprocess of a command can do in the repository as it is.
OutcomesOf(cmd) ==
    CASE cmd = CmdHead -> {head}
      [] cmd = CmdBranch -> BranchOutcomes
      [] cmd = CmdRemote -> RemoteOutcomes
      [] cmd = CmdPull -> PullOutcomes

\* The subprocess runs: it reads the repository, writes its output and
\* ends with its exit code. A pull leaves the repository in any state,
\* whether it succeeds or not.
GitRun(t) ==
    LET p == tasks[t].proc IN
    /\ p.phase = "spawned"
    /\ \E o \in OutcomesOf(p.cmd) :
           tasks' = [tasks EXCEPT ![t].proc =
               [p EXCEPT !.phase = "running", !.code = o.code,
                         !.pendOut = o.out, !.pendErr = o.err]]
    /\ IF p.cmd = CmdPull THEN head' \in HeadStates ELSE head' = head
    /\ UNCHANGED <<cmdVars, bootVars, permVars, gitRepo, vcsEnabled, uncaught>>

\* Line 200: a 'data' event of stdout.
StdoutData(t) ==
    LET p == tasks[t].proc IN
    /\ p.phase = "running"
    /\ p.pendOut # <<>>
    /\ tasks' = [tasks EXCEPT ![t].proc =
           [p EXCEPT !.pendOut = Tail(@), !.stdout = Append(@, Head(p.pendOut))]]
    /\ UNCHANGED <<cmdVars, bootVars, permVars, gitRepo, vcsEnabled, head, uncaught>>

\* Line 201: a 'data' event of stderr.
StderrData(t) ==
    LET p == tasks[t].proc IN
    /\ p.phase = "running"
    /\ p.pendErr # <<>>
    /\ tasks' = [tasks EXCEPT ![t].proc =
           [p EXCEPT !.pendErr = Tail(@), !.stderr = Append(@, Head(p.pendErr))]]
    /\ UNCHANGED <<cmdVars, bootVars, permVars, gitRepo, vcsEnabled, head, uncaught>>

\* Lines 202-211: the 'exit' event. It is emitted when the subprocess has
\* ended, whether or not its streams were read to their end. The promise
\* settles and the awaiting functions run on to the next await.
ExitEvent(t) ==
    LET p == tasks[t].proc IN
    /\ p.phase = "running"
    /\ tasks' = [tasks EXCEPT ![t] = Settled(tasks[t], ExitResult(p, p.code))]
    /\ UNCHANGED <<cmdVars, bootVars, permVars, gitRepo, vcsEnabled, head, uncaught>>

\* The binary cannot be spawned: the child emits 'error' and no 'exit'.
\* execGit listens for 'exit' only (line 202), so the error goes uncaught
\* and the promise never settles.
ErrorEvent(t) ==
    LET p == tasks[t].proc IN
    /\ p.phase = "spawned"
    /\ tasks' = [tasks EXCEPT ![t].proc = [p EXCEPT !.phase = "errored"]]
    /\ uncaught' = TRUE
    /\ UNCHANGED <<cmdVars, bootVars, permVars, gitRepo, vcsEnabled, head>>

Next ==
    \/ \E t \in Tasks, op \in Ops, cb \in BOOLEAN : Call(t, op, cb)
    \/ \E t \in TaskIds : GitRun(t)
    \/ \E t \in TaskIds : StdoutData(t)
    \/ \E t \in TaskIds : StderrData(t)
    \/ \E t \in TaskIds : ExitEvent(t)
    \/ \E t \in TaskIds : ErrorEvent(t)

Spec == Init /\ [][Next]_vars

\* --------------------------------------------- the other specifications

\* The constructor is called: with or without a startup hook, with any of
\* the repository identifiers.
BootInit ==
    /\ gitRepo \in RepoIds
    /\ vcsEnabled = FALSE
    /\ head \in {HeadA, HeadFails}
    /\ tasks = [t \in TaskIds |-> IdleTask]
    /\ uncaught = FALSE
    /\ at = 0
    /\ startupHook \in BOOLEAN
    /\ log = <<>>
    /\ registry = <<>>
    /\ inited = <<>>
    /\ regs = <<>>
    /\ NoPermissionCall
    /\ NoCommands

BootNext ==
    \/ CtorStep
    \/ CtorThrows
    \/ \E m \in BotModules : RegisterModule(m)
    \/ Ready
    \/ \E t \in TaskIds : GitRun(t)
    \/ \E t \in TaskIds : StdoutData(t)
    \/ \E t \in TaskIds : StderrData(t)
    \/ \E t \in TaskIds : ExitEvent(t)
    \/ \E t \in TaskIds : ErrorEvent(t)

BootSpec == BootInit /\ [][BootNext]_vars

\* The constructor and the ready handler when a subprocess that was
\* spawned runs and the event loop runs the handler of its 'exit' event.
\* Whether a subprocess can be spawned is left open.
BootLiveSpec ==
    /\ BootInit
    /\ [][BootNext]_vars
    /\ WF_vars(GitRun(ReadyTask))
    /\ WF_vars(ExitEvent(ReadyTask))

\* The permission check on every guild and every list of superusers.
PermInit ==
    /\ gitRepo = NULL
    /\ vcsEnabled = FALSE
    /\ head = HeadA
    /\ tasks = [t \in TaskIds |-> IdleTask]
    /\ uncaught = FALSE
    /\ Constructed
    /\ superPerms \in SUBSET Users
    /\ members \in [Users -> Members]
    /\ hasCall = [user |-> NULL, permission |-> NULL,
                  result |-> [threw |-> FALSE, value |-> FALSE]]
    /\ NoCommands

PermNext == \E user \in Users, permission \in Permissions : Has(user, permission)

PermSpec == PermInit /\ [][PermNext]_vars

\* Two calls of update, each with a callback, that the caller does not
\* await: the second may be made while the first is in flight. VCS is
\* enabled and the current version differs from the remote's.
Overlapping == {1, 2}

OverlapInit ==
    /\ gitRepo = <<"a", "/", "b">>
    /\ vcsEnabled = VcsEligible(gitRepo)
    /\ head = HeadB
    /\ tasks = [t \in TaskIds |-> IdleTask]
    /\ uncaught = FALSE
    /\ Constructed
    /\ NoPermissionCall
    /\ NoCommands

\* Lines 266-271: update(then) is called, whatever else is in flight.
CallUpdate(t) ==
    /\ tasks[t].status = "idle"
    /\ tasks' = [tasks EXCEPT ![t] =
           update([IdleTask EXCEPT !.op = "update", !.cb = TRUE, !.status = "pending"])]
    /\ UNCHANGED <<cmdVars, bootVars, permVars, gitRepo, vcsEnabled, head, uncaught>>

OverlapNext ==
    \/ \E t \in Overlapping : CallUpdate(t)
    \/ \E t \in Overlapping : GitRun(t)
    \/ \E t \in Overlapping : StdoutData(t)
    \/ \E t \in Overlapping : StderrData(t)
    \/ \E t \in Overlapping : ExitEvent(t)

OverlapSpec == OverlapInit /\ [][OverlapNext]_vars

\* An engine constructed with VCS disabled (no repository identifier, an
\* empty one, one without a slash), in any state of the repository: the
\* client connects and the public operations are called.
OffInit ==
    /\ gitRepo \in {r \in RepoIds : ~VcsEligible(r)}
    /\ vcsEnabled = VcsEligible(gitRepo)
    /\ head \in HeadStates
    /\ tasks = [t \in TaskIds |-> IdleTask]
    /\ uncaught = FALSE
    /\ Constructed
    /\ NoPermissionCall
    /\ NoCommands

OffNext ==
    \/ \E t \in Tasks, op \in Ops, cb \in BOOLEAN : Call(t, op, cb)
    \/ Ready

OffSpec == OffInit /\ [][OffNext]_vars

\* The version-control calls of an engine with VCS enabled when every
\* subprocess can be spawned, runs and exits: the child emits no 'error',
\* the subprocess does its work, and the event loop runs the handler of its
\* 'exit' event.
LiveInit ==
    /\ gitRepo = <<"a", "/", "b">>
    /\ vcsEnabled = VcsEligible(gitRepo)
    /\ head = HeadB
    /\ tasks = [t \in TaskIds |-> IdleTask]
    /\ uncaught = FALSE
    /\ Constructed
    /\ NoPermissionCall
    /\ NoCommands

LiveNext ==
    \/ \E t \in Tasks, op \in Ops, cb \in BOOLEAN : Call(t, op, cb)
    \/ \E t \in Tasks : GitRun(t)
    \/ \E t \in Tasks : StdoutData(t)
    \/ \E t \in Tasks : StderrData(t)
    \/ \E t \in Tasks : ExitEvent(t)

LiveSpec ==
    /\ LiveInit
    /\ [][LiveNext]_vars
    /\ \A t \in Tasks : WF_vars(GitRun(t)) /\ WF_vars(ExitEvent(t))

\* The bot's code registering commands on a constructed engine.
CmdInit ==
    /\ gitRepo = NULL
    /\ vcsEnabled = FALSE
    /\ head = HeadA
    /\ tasks = [t \in TaskIds |-> IdleTask]
    /\ uncaught = FALSE
    /\ Constructed
    /\ NoPermissionCall
    /\ NoCommands

CmdNext ==
    \E name \in CommandNames, command \in Commands : RegisterCommand(name, command)

CmdSpec == CmdInit /\ [][CmdNext]_vars

\* ------------------------------------------------------------ the claims

QueryOps == {"getCurrentVersion", "getUpstreamVersion", "getReleaseChannel"}

\* A repository identifier that is not of the shape word/word: absent,
\* empty, without a slash, or with more than one slash.
MalformedRepo(repo) ==
    Falsy(repo) \/ Cardinality({i \in 1..Len(repo) : repo[i] = "/"}) # 1

\* Exactly seven lower-case hexadecimal characters.
IsVersion(v) == Len(v) = VersionLen /\ \A k \in 1..Len(v) : v[k] \in HexChars

\* C1: a malformed repository identifier leaves VCS disabled, and every
\* version query made afterwards returns 'unknown'.
C1_MalformedRepoDisablesVcs ==
    MalformedRepo(gitRepo) =>
        /\ ~vcsEnabled
        /\ \A t \in Tasks :
               (tasks[t].op \in QueryOps /\ tasks[t].status = "resolved")
                   => tasks[t].result = Unknown

\* C2: with VCS enabled, getCurrentVersion returns seven lower-case hex
\* characters or 'unknown', whatever the subprocess did.
C2_CurrentVersionShape ==
    \A t \in Tasks :
        (vcsEnabled /\ tasks[t].op = "getCurrentVersion"
                    /\ tasks[t].status = "resolved")
            => (IsVersion(tasks[t].result) \/ tasks[t].result = Unknown)

\* The call the caller made last.
LastCall(t) == \A u \in Tasks : u > t => tasks[u].status = "idle"

\* C3: when the pull subprocess of an update fails, update does not reject
\* and its callback receives 'Failure'; a getCurrentVersion call made
\* afterwards gets its value from a subprocess of its own, run on the
\* repository as the pull left it, not from a remembered value.
C3_UpdateFailureLaw ==
    /\ \A t \in Tasks :
           (tasks[t].op = "update" /\ tasks[t].cb
                /\ tasks[t].pull.settled /\ ~tasks[t].pull.ok)
               => (tasks[t].status = "resolved" /\ tasks[t].called = <<Failure>>)
    /\ \A t \in Tasks :
           (vcsEnabled /\ LastCall(t) /\ tasks[t].op = "getCurrentVersion"
                       /\ tasks[t].status = "resolved")
               => tasks[t].spawns = 1

\* update has computed both versions and they are equal ignoring case.
SameVersion(t) ==
    /\ tasks[t].op = "update"
    /\ vcsEnabled
    /\ tasks[t].remote # NULL
    /\ ToLowerCase(tasks[t].local) = ToLowerCase(tasks[t].remote)

\* C4: with VCS enabled, when the current and the upstream version that
\* update computed are equal ignoring case, update spawns no pull
\* subprocess and its callback receives the current version.
C4_UpdateNoOpLaw ==
    \A t \in Tasks :
        SameVersion(t) =>
            /\ tasks[t].pulls = 0
            /\ tasks[t].proc = NoProc
            /\ tasks[t].cb =>
                   (tasks[t].status = "resolved"
                        /\ tasks[t].called = <<tasks[t].local>>)

\* C4's case: the versions differ in case only, no pull was spawned and the
\* callback got the current version.
C4_Witness ==
    \E t \in Tasks :
        /\ SameVersion(t)
        /\ tasks[t].cb
        /\ tasks[t].local # tasks[t].remote
        /\ IsVersion(tasks[t].local)
        /\ tasks[t].called = <<tasks[t].local>>
        /\ tasks[t].pulls = 0

\* C5: for a user of the superuser list, has returns true for every
\* permission and every guild, also one the user is no member of, and
\* raises no error.
C5_SuperuserAlwaysHas ==
    (hasCall.user # NULL /\ hasCall.user \in superPerms)
        => (~hasCall.result.threw /\ hasCall.result.value)

\* C6: with VCS enabled, no public version-control operation raises or
\* rejects, whatever the subprocess does: no error goes uncaught, every
\* subprocess settles its promise, and update (given a callback) resolves.
C6_NeverRaises ==
    vcsEnabled =>
        /\ ~uncaught
        /\ \A t \in Tasks :
               /\ tasks[t].proc.phase # "errored"
               /\ (tasks[t].op \in QueryOps \/ tasks[t].cb)
                      => tasks[t].status # "rejected"

\* How often x occurs in a sequence.
Count(seq, x) == Cardinality({i \in 1..Len(seq) : seq[i] = x})

\* The order of construction as claimed, with and without a startup hook.
ClaimedOrder ==
    << "eventHandler", "registerCommands", "registerFlows", "registerModules" >>
        \o (IF startupHook THEN <<"startup">> ELSE <<>>)
        \o << "init", "login" >>

\* The constructor's steps so far, without the registration of the ready
\* listener that follows login.
StepsTaken == SelectSeq(log, LAMBDA x : x # "listen")

\* C7: construction takes its steps in one fixed order, each once: the
\* event-handling module, registerCommands, registerFlows, registerModules,
\* the startup hook if supplied, moduleManager.init, login. No module is
\* initialized while an extension point or the startup hook runs, and login
\* starts only once the modules are initialized.
C7_ConstructionOrder ==
    /\ Len(StepsTaken) <= Len(ClaimedOrder)
    /\ StepsTaken = SubSeq(ClaimedOrder, 1, Len(StepsTaken))
    /\ at = Len(CtorOrder) => StepsTaken = ClaimedOrder
    /\ InExtensionPoint => inited = <<>>
    /\ Count(log, "login") > 0 => inited # <<>>

\* C7's case: an engine constructed with a startup hook, whose bot
\* registered a module that was then initialized.
C7_Witness ==
    /\ at = Len(CtorOrder)
    /\ startupHook
    /\ StepsTaken = ClaimedOrder
    /\ \E i \in 1..Len(regs) : regs[i].during = "startup"
    /\ Len(inited) > 1

\* The client has connected: the ready handler has started.
Connected == tasks[ReadyTask].status # "idle"

\* The modules registered so far, by the constructor or by the bot's code.
Registered == {EventModule} \cup {regs[i].module : i \in 1..Len(regs)}

\* C8 as claimed: every module ever registered through registerModule,
\* whenever the call was made, is initialized exactly once, before the
\* client connects.
C8_EveryRegisteredModuleInitialized ==
    Connected => \A m \in Registered : Count(inited, m) = 1

\* The registrations made before moduleManager.init(): that of the
\* event-handling module, then those of the extension points and the
\* startup hook.
EarlyRegs ==
    <<EventModule>> \o
        [i \in 1..Len(SelectSeq(regs, LAMBDA r : r.during \in ExtensionPoints)) |->
            SelectSeq(regs, LAMBDA r : r.during \in ExtensionPoints)[i].module]

\* m was registered before moduleManager.init() and no module registered
\* after it and before init() goes by its name.
InRegistryAtInit(m) ==
    \E i \in 1..Len(EarlyRegs) :
        /\ EarlyRegs[i] = m
        /\ \A j \in (i + 1)..Len(EarlyRegs) :
               ModuleName(EarlyRegs[j]) = ModuleName(m) => EarlyRegs[j] = m

\* C8 as amended: the modules in the registry when the constructor calls
\* moduleManager.init() are initialized exactly once, by that call, after
\* the extension points and the startup hook returned and before login; a
\* module registered later, or replaced before init(), is not initialized.
C8_RegistryAtInitInitializedOnce ==
    /\ Count(log, "init") = 0 => inited = <<>>
    /\ Count(log, "init") > 0 =>
           \A m \in BotModules \cup {EventModule} :
               Count(inited, m) = IF InRegistryAtInit(m) THEN 1 ELSE 0
    /\ InExtensionPoint => inited = <<>>
    /\ Count(log, "login") > 0 => Count(log, "init") > 0

\* C8's case: the client has connected; one module registered by an
\* extension point was initialized, one registered from onReady was not.
C8_Witness ==
    /\ Connected
    /\ \E i, j \in 1..Len(regs) :
           /\ regs[i].during = "registerModules"
           /\ Count(inited, regs[i].module) = 1
           /\ regs[j].during = "onReady"
           /\ Count(inited, regs[j].module) = 0

\* C9: when the pull subprocess of an update exits with code 0, whatever it
\* wrote, update queries the current version again (its fifth subprocess,
\* after those of the current version, the release channel, the upstream
\* version and the pull) and its callback receives that value, not
\* 'Failure'.
C9_UpdateReportsFreshVersion ==
    \A t \in Tasks :
        (tasks[t].op = "update" /\ tasks[t].cb
             /\ tasks[t].pull.settled /\ tasks[t].pull.ok)
            => /\ tasks[t].status # "rejected"
               /\ tasks[t].called # <<Failure>>
               /\ tasks[t].status = "resolved"
                      => (Len(tasks[t].called) = 1 /\ tasks[t].spawns = 5)

\* C10: when a version query's subprocess fails during an update, the
\* callback receives 'Failure', never 'unknown'.
C10_UpdateNeverReportsUnknown ==
    \A t \in Tasks :
        (tasks[t].op = "update" /\ vcsEnabled /\ tasks[t].cb
             /\ tasks[t].failed \cap {"getCurrentVersion", "getUpstreamVersion",
                                      "getReleaseChannel"} # {})
            => /\ \A i \in 1..Len(tasks[t].called) : tasks[t].called[i] # Unknown
               /\ tasks[t].status = "resolved" => tasks[t].called = <<Failure>>

\* Everything a subprocess writes to stdout, delivered or not, trimmed.
Written(p) == Trim(Join(p.stdout \o p.pendOut))

\* C11: with VCS enabled, getUpstreamVersion returns 'unknown' when the
\* release channel came out as 'unknown' (its query failed or yielded it),
\* when the remote query's subprocess fails, or when that subprocess writes
\* no commit identifier; otherwise it returns the first seven characters of
\* what the remote query's subprocess wrote.
C11_UpstreamVersionLaw ==
    [][\A t \in Tasks :
          (/\ tasks[t].op = "getUpstreamVersion"
           /\ vcsEnabled
           /\ tasks[t].proc.phase = "running"
           /\ tasks[t].proc.cmd = CmdRemote
           /\ tasks'[t].status = "resolved")
              => tasks'[t].result =
                     IF \/ tasks[t].proc.ref = Unknown
                        \/ tasks[t].proc.code # 0
                        \/ Written(tasks[t].proc) = <<>>
                     THEN Unknown
                     ELSE Substring(Written(tasks[t].proc), VersionLen)]_vars

\* The text execGit settles with at the exit of subprocess p, when p's
\* exit code is 0.
Resolved(p) == ExitResult(p, p.code).v

\* getReleaseChannel, called with VCS enabled, resolves at this step, the
\* exit of its subprocess.
ChannelReturns(t) ==
    /\ tasks[t].op = "getReleaseChannel"
    /\ vcsEnabled
    /\ tasks[t].proc.phase = "running"
    /\ tasks[t].proc.cmd = CmdBranch
    /\ tasks'[t].status = "resolved"

\* C12 as claimed: getReleaseChannel returns 'unknown' if the subprocess
\* failed or its trimmed output begins with 'fatal', and in every other
\* case the trimmed output unchanged.
C12_ReleaseChannelLaw ==
    [][\A t \in Tasks :
          ChannelReturns(t) =>
              tasks'[t].result =
                  IF \/ tasks[t].proc.code # 0
                     \/ StartsWith(Resolved(tasks[t].proc), Fatal)
                  THEN Unknown
                  ELSE Resolved(tasks[t].proc)]_vars

\* C12 as amended: getReleaseChannel returns 'unknown' if the subprocess
\* failed, or the text execGit resolved with is empty or begins with
\* 'fatal', and in every other case that text unchanged.
C12_ReleaseChannelLawEmptyIsUnknown ==
    [][\A t \in Tasks :
          ChannelReturns(t) =>
              tasks'[t].result =
                  IF \/ tasks[t].proc.code # 0
                     \/ Resolved(tasks[t].proc) = <<>>
                     \/ StartsWith(Resolved(tasks[t].proc), Fatal)
                  THEN Unknown
                  ELSE Resolved(tasks[t].proc)]_vars

\* C12's case: getReleaseChannel has returned the branch name its
\* subprocess wrote.
C12_Witness ==
    \E t \in Tasks :
        /\ vcsEnabled
        /\ tasks[t].op = "getReleaseChannel"
        /\ tasks[t].status = "resolved"
        /\ tasks[t].spawns = 1
        /\ tasks[t].result = <<"m", "a", "i", "n">>

\* What the ready handler does, in the order claimed.
ReadyOrder ==
    (IF vcsEnabled THEN <<"info:version">> ELSE <<>>)
        \o << "info:connected", "setPresence", "onReady" >>

\* C13: the ready handler runs only once the constructor has taken all its
\* steps, login included; what it does, it does in the order: the version
\* log line (only with VCS enabled), the connected log line, the presence,
\* onReady. With VCS disabled there is no version log line.
C13_ReadyHandlerOrder ==
    LET did == tasks[ReadyTask].did IN
    /\ Connected =>
           /\ at = Len(CtorOrder)
           /\ StepsTaken = ClaimedOrder
           /\ Count(log, "listen") = 1
    /\ ~Connected => did = <<>>
    /\ Len(did) <= Len(ReadyOrder)
    /\ did = SubSeq(ReadyOrder, 1, Len(did))
    /\ tasks[ReadyTask].status = "resolved" => did = ReadyOrder
    /\ ~vcsEnabled => Count(did, "info:version") = 0

\* C13's case: with VCS enabled the handler has run to its end, the version
\* log line first and onReady last.
C13_Witness ==
    /\ vcsEnabled
    /\ tasks[ReadyTask].status = "resolved"
    /\ tasks[ReadyTask].spawns = 2
    /\ tasks[ReadyTask].did
           = << "info:version", "info:connected", "setPresence", "onReady" >>
    /\ Count(log, "login") = 1

\* C14: two consecutive calls of getCurrentVersion, with no call of update
\* between them and so no change of the repository, return the same value.
C14_CurrentVersionIdempotent ==
    \A t \in Tasks :
        (/\ t + 1 \in Tasks
         /\ tasks[t].op = "getCurrentVersion"
         /\ tasks[t + 1].op = "getCurrentVersion"
         /\ tasks[t].status = "resolved"
         /\ tasks[t + 1].status = "resolved")
            => tasks[t].result = tasks[t + 1].result

\* The calls of registerCommand made for a name, by their position.
CallsFor(name) == {i \in 1..Len(cmdRegs) : cmdRegs[i].name = name}

\* The last of the calls made for a name.
LastFor(name) == CHOOSE i \in CallsFor(name) : \A j \in CallsFor(name) : j <= i

\* C15: after any sequence of registerCommand calls, a name that was
\* registered has exactly one retrievable entry, the command of the last
\* call made for that name; a name never registered has none.
C15_RegistrationOverwrite ==
    \A name \in CommandNames :
        LET found == CommandManagerLookup(commands, name) IN
        IF CallsFor(name) = {} THEN found = {}
        ELSE /\ Cardinality(found) = 1
             /\ \A i \in found :
                    commands[i].command = cmdRegs[LastFor(name)].command

\* C15's case: a name was registered twice, with different commands, and
\* the registry holds the second.
C15_Witness ==
    \E i, j \in 1..Len(cmdRegs) :
        /\ i < j
        /\ cmdRegs[i].name = cmdRegs[j].name
        /\ cmdRegs[i].command # cmdRegs[j].command
        /\ j = LastFor(cmdRegs[j].name)
        /\ \E k \in CommandManagerLookup(commands, cmdRegs[j].name) :
               commands[k].command = cmdRegs[j].command
        /\ Len(commands) = 2

\* The subprocess of task t exits at this step: its exit handler runs.
Exits(t) ==
    /\ tasks[t].proc.phase = "running"
    /\ tasks'[t].proc # tasks[t].proc
    /\ tasks'[t].proc.phase # "running"

\* What execGit would settle with at the exit of subprocess p, had it all
\* that p wrote: the trimmed concatenation of everything written to stdout
\* for exit code 0, of everything written to stderr otherwise.
AllOutput(p) ==
    IF p.code # 0
    THEN [ok |-> FALSE, v |-> Trim(Join(p.stderr \o p.pendErr))]
    ELSE [ok |-> TRUE, v |-> Trim(Join(p.stdout \o p.pendOut))]

\* C16: whatever the order of the stdout data events, the stderr data
\* events and the exit event of a subprocess, execGit settles at exit with
\* all the subprocess wrote: the function awaiting it goes on as it does
\* with the trimmed concatenation of all stdout (exit code 0) or with a
\* rejection carrying that of all stderr (any other exit code).
C16_ExecGitSettlesWithAllOutput ==
    [][\A t \in TaskIds :
          Exits(t) =>
              /\ ExitResult(tasks[t].proc, tasks[t].proc.code)
                     = AllOutput(tasks[t].proc)
              /\ tasks'[t] = Settled(tasks[t], AllOutput(tasks[t].proc))]_vars

\* The pull subprocess of call t is running.
Pulling(t) ==
    /\ tasks[t].op = "update"
    /\ tasks[t].proc.phase = "running"
    /\ tasks[t].proc.cmd = CmdPull

\* C17: overlapping calls of update are not coordinated. A step of one
\* call leaves the other call as it is, whatever the other is doing; the
\* callback of a call is invoked by that call alone, at the exit of a
\* subprocess of its own, once, with the call resolving. (That both calls
\* can have their pull subprocess running at once is the witness.)
C17_OverlappingUpdatesIndependent ==
    [][\A t \in Overlapping :
          /\ tasks'[t] # tasks[t] =>
                 \A u \in Overlapping \ {t} : tasks'[u] = tasks[u]
          /\ tasks'[t].called # tasks[t].called =>
                 /\ Exits(t)
                 /\ tasks[t].called = <<>>
                 /\ Len(tasks'[t].called) = 1
                 /\ tasks'[t].status = "resolved"]_vars

\* C17's case: both calls have their pull subprocess running at the same
\* time, neither having reported yet.
C17_Witness ==
    /\ Pulling(1)
    /\ Pulling(2)
    /\ tasks[1].called = <<>>
    /\ tasks[2].called = <<>>

\* Task t has spawned no subprocess and is not suspended at an await.
NoSubprocess(t) ==
    /\ tasks[t].proc = NoProc
    /\ tasks[t].spawns = 0
    /\ tasks[t].stack = <<>>
    /\ tasks[t].status # "pending"

\* C18: with VCS disabled no operation spawns a subprocess or suspends on
\* one: the version queries return 'unknown', update invokes its callback
\* once, with 'Failure', and the ready handler makes no version query.
C18_DisabledSpawnsNothing ==
    ~vcsEnabled =>
        /\ ~uncaught
        /\ \A t \in TaskIds : NoSubprocess(t)
        /\ \A t \in Tasks :
               tasks[t].status # "forgotten" =>
                   /\ tasks[t].op \in QueryOps =>
                          (tasks[t].status = "resolved" /\ tasks[t].result = Unknown)
                   /\ (tasks[t].op = "update" /\ tasks[t].cb) =>
                          (tasks[t].status = "resolved"
                               /\ tasks[t].called = <<Failure>>)
        /\ Connected =>
               /\ tasks[ReadyTask].status = "resolved"
               /\ tasks[ReadyTask].did
                      = << "info:connected", "setPresence", "onReady" >>

\* C18's case: with VCS disabled the client has connected, a version query
\* has returned and update has called back.
C18_Witness ==
    /\ ~vcsEnabled
    /\ Connected
    /\ \E t, u \in Tasks :
           /\ tasks[t].op \in QueryOps
           /\ tasks[t].result = Unknown
           /\ tasks[u].op = "update"
           /\ tasks[u].called = <<Failure>>

\* C19: when every spawned subprocess eventually exits, every update call
\* made with a callback eventually invokes the callback; it never invokes
\* it twice and never spawns a second pull subprocess.
C19_UpdateCallsBack ==
    /\ \A t \in Tasks :
           (tasks[t].op = "update" /\ tasks[t].cb) ~> (Len(tasks[t].called) = 1)
    /\ [](\A t \in Tasks :
              tasks[t].op = "update" =>
                  (Len(tasks[t].called) <= 1 /\ tasks[t].pulls <= 1))

\* C20: once the client has connected, the ready handler eventually sets
\* the presence and calls onReady, with VCS disabled or enabled and
\* whatever the subprocesses of its version queries do.
C20_ConnectedLeadsToOnReady ==
    Connected ~>
        (Count(tasks[ReadyTask].did, "setPresence") = 1 /\ OnReadyCalled)

====
